---- MODULE Spec2Model ----
(***************************************************************************)
(* A model of the GitHub star report generator:                            *)
(*   github/generate_awesome_docker_stars.py  (parse_repos,                *)
(*       fetch_star_data, render_markdown, main)                           *)
(*   github/get_stars.py  (_handle_error, _request_json, fetch_repo_stars, *)
(*       discover_tokens, format_stars, rate_limit_message)                *)
(*                                                                         *)
(* Text is modelled as a sequence of tokens: a token is one character      *)
(* ("/", "?", "#", ".", "a", ...) or an indivisible run of characters that *)
(* no operation of the program ever cuts ("https://", "github", "com").    *)
(* Python's None is the empty sequence <<>> and an int n is <<n>>.         *)
(***************************************************************************)
EXTENDS Integers, Sequences, FiniteSets, TLC

\* ------------------------------------------------------------------ bounds
\* Lines of a document read by parse_repos.
MaxLines == 3
\* Tokens of a link's path (what follows "github.com/").
MaxUrlLen == 5
\* Lines of a document made of headings only.
MaxHeadings == 4

\* The deepest heading the header pattern accepts: #{1,6}.
MaxHeadingLevel == 6

None == <<>>
Some(n) == <<n>>

\* --------------------------------------------------------- text helpers
\* s[:n]
Take(s, n) == SubSeq(s, 1, IF n < Len(s) THEN n ELSE Len(s))

\* s[n:]  (0-based n, as in Python)
Drop(s, n) == SubSeq(s, n + 1, Len(s))

\* str.find: the 1-based place of the first occurrence of sep in s, 0 if none.
Find(s, sep) ==
    LET hits == {i \in 1..(Len(s) - Len(sep) + 1) :
                    SubSeq(s, i, i + Len(sep) - 1) = sep}
    IN IF hits = {} THEN 0 ELSE CHOOSE i \in hits : \A j \in hits : i <= j

\* str.split(sep): the pieces of s between the occurrences of sep, left to right.
RECURSIVE Split(_, _)
Split(s, sep) ==
    LET i == Find(s, sep)
    IN IF i = 0 THEN <<s>>
       ELSE <<SubSeq(s, 1, i - 1)>> \o Split(Drop(s, i - 1 + Len(sep)), sep)

\* str.lstrip(c) and str.rstrip(c) for a single character c, then str.strip(c).
RECURSIVE LStrip(_, _)
LStrip(s, c) == IF s # <<>> /\ Head(s) = c THEN LStrip(Tail(s), c) ELSE s

RECURSIVE RStrip(_, _)
RStrip(s, c) ==
    IF s # <<>> /\ s[Len(s)] = c THEN RStrip(SubSeq(s, 1, Len(s) - 1), c) ELSE s

Strip(s, c) == RStrip(LStrip(s, c), c)

\* sep.join(parts)
RECURSIVE Join(_, _)
Join(parts, sep) ==
    IF parts = <<>> THEN <<>>
    ELSE IF Len(parts) = 1 THEN parts[1]
    ELSE parts[1] \o sep \o Join(Tail(parts), sep)

\* All sequences over S of length lo..hi.
SeqsOf(S, lo, hi) == UNION {[1..n -> S] : n \in lo..hi}

\* ------------------------------------------------------- the input lines
\* The characters a link's path is drawn from.
PathChars == {"a", "b", "/", "?", "#"}

GitHubHost == <<"github", ".", "com">>
\* A host that is not github.com but differs from it in the one character the
\* bullet pattern leaves open, and a host the pattern rejects.
DashHost == <<"github", "-", "com">>
OtherHost == <<"gitlab", ".", "com">>

Url(host, path) == <<"https://">> \o host \o <<"/">> \o path

HeadingLine(level, title) == [kind |-> "heading", level |-> level, title |-> title]
BulletLine(name, url, tail) == [kind |-> "bullet", name |-> name, url |-> url, tail |-> tail]
OtherLine == [kind |-> "other"]

Titles == {"A", "B"}

\* The link text and the text after the link, as written on the line.
Texts == {<<"foo", "- a database">>, <<" bar ", "dup :skull:">>}

\* The documents of SpecParse are sequences of these lines.
DocPaths == {<<"a", "/", "b">>, <<"a", "/", "b", "/", "a">>, <<"a">>}

DocLines ==
    {HeadingLine(l, t) : l \in 1..MaxHeadingLevel, t \in Titles}
    \cup {BulletLine(x[1], Url(GitHubHost, p), x[2]) : x \in Texts, p \in DocPaths}
    \cup {BulletLine("foo", Url(DashHost, <<"a", "/", "b">>), "- a database"),
          BulletLine("foo", Url(OtherHost, <<"a", "/", "b">>), "- a database"),
          OtherLine}

\* The documents of SpecSlug are one bullet, over every path up to MaxUrlLen.
UrlLines ==
    {BulletLine("foo", Url(h, p), "- a database") :
        h \in {GitHubHost, DashHost}, p \in SeqsOf(PathChars, 1, MaxUrlLen)}

\* ------------------------------------------------------------ parse_repos
\* re.match(r"^(#{1,6})\s+(.*)$", line)
HeaderMatch(line) == line.kind = "heading" /\ line.level \in 1..MaxHeadingLevel

\* re.match(r"^-+\s*\[([^\]]+)\]\((https?://github.com/[^)]+)\)\s*(.*)$", line):
\* the "." of the pattern stands for any one character of the host.
BulletMatch(line) ==
    /\ line.kind = "bullet"
    /\ Len(line.url) >= 6
    /\ line.url[1] \in {"http://", "https://"}
    /\ line.url[2] = "github"
    /\ line.url[4] = "com"
    /\ line.url[5] = "/"

\* name.strip()
StripName(name) ==
    CASE name = " bar " -> "bar"
      [] OTHER -> name

\* _clean_note(tail), on the tails of Texts.
CleanNote(tail) ==
    CASE tail = "- a database" -> "a database"
      [] tail = "dup :skull:" -> "dup :skull"
      [] OTHER -> tail

\* _current_category(headings)
CurrentCategory(hs) ==
    IF Len(hs) <= 1 THEN <<>> ELSE Join([i \in 1..(Len(hs) - 1) |-> <<hs[i + 1]>>], <<" / ">>)

\* headings = headings[: level - 1]; headings.append(title)
PushHeading(hs, level, title) == Append(Take(hs, level - 1), title)

\* url.split("github.com/"): the pieces; piece [1] is taken next.
HostSplit(url) == Split(url, GitHubHost \o <<"/">>)

\* .split("/?")[0].split("#")[0].strip("/") of the piece after the host
TrimPath(piece) == Strip(Split(Split(piece, <<"/", "?">>)[1], <<"#">>)[1], "/")

\* slug.split("/")
SlugParts(path) == Split(path, <<"/">>)

\* "/".join(slug_parts[:2])
SlugOf(parts) == Join(Take(parts, 2), <<"/">>)

RepoEntry(name, slug, category, note) ==
    [name |-> name, slug |-> slug, url |-> Url(GitHubHost, slug),
     category |-> category, note |-> note, stars |-> None]

\* ------------------------------------------------------------------ state
VARIABLES
    markdown,      \* parse_repos: the lines of the document read so far
    headings,      \* parse_repos: the stack of heading titles
    entries,       \* the list of RepoEntry: built by parse_repos, filled by fetch_star_data
    seen,          \* parse_repos: the keys of the dict of slugs already kept
    pc,            \* where the program is
    env,           \* the environment's token variables
    tokens,        \* fetch_star_data: the credential list
    token_index,   \* fetch_star_data: the current credential
    cur,           \* fetch_star_data: the place in entries of the for loop
    last,          \* the last lookup issued: entry, credential sent, response
    lookups,       \* how many lookups were issued
    exit_status,   \* main: the process's exit status, None while running
    printed,       \* main: what the process printed on exit
    output         \* main: the report written to the output file, None if never opened

parseVars == <<markdown, headings, entries, seen>>
fetchVars == <<env, tokens, token_index, cur, last, lookups>>
mainVars == <<exit_status, printed, output>>
vars == <<markdown, headings, entries, seen, pc, env, tokens, token_index, cur,
          last, lookups, exit_status, printed, output>>

NoLookup == [entry |-> 0, index |-> 0, auth |-> None, resp |-> [kind |-> "none"]]

\* The variables a specification does not use rest at these values.
FetchIdle ==
    /\ env = <<>>
    /\ tokens = <<>>
    /\ token_index = 0
    /\ cur = 0
    /\ last = NoLookup
    /\ lookups = 0

MainIdle ==
    /\ exit_status = None
    /\ printed = None
    /\ output = None

\* -------------------------------------------------- parse_repos, by line
\* A parser that forgets what it has kept: every bullet is a first occurrence.
IsSeen_never(slug, keys) == FALSE

\* if slug in seen
IsSeen(slug, keys) == slug \in keys

\* One turn of the loop over markdown.splitlines().
ParseLine(line) ==
    /\ pc = "parsing"
    /\ markdown' = Append(markdown, line)
    /\ IF HeaderMatch(line)
       THEN /\ headings' = PushHeading(headings, line.level, line.title)
            /\ UNCHANGED <<entries, seen, pc>>
       ELSE IF ~BulletMatch(line)
       THEN UNCHANGED <<headings, entries, seen, pc>>
       ELSE IF Len(HostSplit(line.url)) < 2
       THEN \* url.split("github.com/")[1] raises IndexError
            /\ pc' = "raised"
            /\ UNCHANGED <<headings, entries, seen>>
       ELSE LET parts == SlugParts(TrimPath(HostSplit(line.url)[2]))
                slug == SlugOf(parts)
            IN IF Len(parts) < 2 \/ IsSeen(slug, seen)
               THEN UNCHANGED <<headings, entries, seen, pc>>
               ELSE /\ entries' = Append(entries,
                            RepoEntry(StripName(line.name), slug,
                                      CurrentCategory(headings), CleanNote(line.tail)))
                    /\ seen' = seen \cup {slug}
                    /\ UNCHANGED <<headings, pc>>
    /\ UNCHANGED fetchVars
    /\ UNCHANGED mainVars

\* The loop ends with the document: return entries.
ParseReturn ==
    /\ pc = "parsing"
    /\ pc' = "returned"
    /\ UNCHANGED parseVars
    /\ UNCHANGED fetchVars
    /\ UNCHANGED mainVars

InitParse ==
    /\ markdown = <<>>
    /\ headings = <<>>
    /\ entries = <<>>
    /\ seen = {}
    /\ pc = "parsing"
    /\ FetchIdle
    /\ MainIdle

\* parse_repos on every document of up to MaxLines lines of DocLines.
ReadDocLine == \E line \in DocLines : Len(markdown) < MaxLines /\ ParseLine(line)

NextParse == ReadDocLine \/ ParseReturn

SpecParse == InitParse /\ [][NextParse]_vars

\* parse_repos on every document of one bullet of UrlLines.
ReadUrlLine == \E line \in UrlLines : markdown = <<>> /\ ParseLine(line)

NextSlug == ReadUrlLine \/ ParseReturn

SpecSlug == InitParse /\ [][NextSlug]_vars

\* parse_repos on every document of up to MaxHeadings heading lines.
HeadingLines == {HeadingLine(l, t) : l \in 1..MaxHeadingLevel, t \in Titles}

ReadHeadingLine == \E line \in HeadingLines : Len(markdown) < MaxHeadings /\ ParseLine(line)

NextHeadings == ReadHeadingLine \/ ParseReturn

SpecHeadings == InitParse /\ [][NextHeadings]_vars

\* ------------------------------------------------- the GitHub API's answers
\* Entries main hands to fetch_star_data.
MaxEntries == 2
\* Entries sorted and rendered on their own.
MaxRows == 4
\* Credentials a caller passes to fetch_star_data.
MaxTokens == 2

\* The star counts the API reports.
StarValues == {0, 5, 10}

\* The phrases the program looks for in an error's message; a message is
\* modelled by the set of these phrases it contains.
Phrases == {"Not Found", "Bad credentials", "rate limit"}

HttpCodes == {401, 403, 404, 500}

\* The clock of rate_limit_message, in seconds, and an X-RateLimit-Reset header
\* 300 seconds ahead of it.
NowSecs == 10 * 60
ResetAhead == NowSecs + 300

OkResponse(n) == [kind |-> "ok", stars |-> n]
HttpError(code, msg, reset) == [kind |-> "http", code |-> code, msg |-> msg, reset |-> reset]
NetworkError == [kind |-> "network"]

Responses ==
    {OkResponse(n) : n \in StarValues}
    \cup {HttpError(c, m, None) : c \in HttpCodes, m \in SUBSET Phrases}
    \cup {HttpError(403, m, Some(r)) :
              m \in {x \in SUBSET Phrases : "rate limit" \in x}, r \in {0, ResetAhead}}
    \cup {NetworkError}

\* The environments: GITHUB_TOKEN and MY_PAT, each unset ("") or set to a token.
EnvValues == {"", "t1", "t2"}
Envs == {<<<<"GITHUB_TOKEN", a>>, <<"MY_PAT", b>>>> : a, b \in EnvValues}

\* The entries parse_repos returns: distinct slugs, stars not yet set.
RepoSlugs == <<<<"a", "/", "b">>, <<"b", "/", "a">>, <<"a", "/", "a">>, <<"b", "/", "b">>,
               <<"a", "/", "c">>, <<"c", "/", "a">>>>
ParsedEntries(n) == [i \in 1..n |-> RepoEntry("foo", RepoSlugs[i], <<>>, "a database")]

\* ------------------------------------------------------------ get_stars.py
PreferredKeys == <<"GITHUB_TOKEN", "GH_TOKEN", "GITHUB_PAT", "GH_PAT">>

Range(f) == {f[i] : i \in DOMAIN f}

\* env.get(key)
EnvGet(e, key) ==
    IF \E i \in DOMAIN e : e[i][1] = key
    THEN e[CHOOSE i \in DOMAIN e : e[i][1] = key][2]
    ELSE ""

\* "PAT" in key.upper()
HasPAT(key) == key \in {"GITHUB_PAT", "GH_PAT", "MY_PAT"}

\* if val and val not in tokens: tokens.append(val)
AppendNew(toks, val) == IF val # "" /\ val \notin Range(toks) THEN Append(toks, val) ELSE toks

RECURSIVE PreferredFrom(_, _, _)
PreferredFrom(e, i, toks) ==
    IF i > Len(PreferredKeys) THEN toks
    ELSE PreferredFrom(e, i + 1, AppendNew(toks, EnvGet(e, PreferredKeys[i])))

RECURSIVE PatFrom(_, _, _)
PatFrom(e, i, toks) ==
    IF i > Len(e) THEN toks
    ELSE PatFrom(e, i + 1, IF HasPAT(e[i][1]) THEN AppendNew(toks, e[i][2]) ELSE toks)

\* discover_tokens(env)
DiscoverTokens(e) == PatFrom(e, 1, PreferredFrom(e, 1, <<>>))

\* discover_token(env)
DiscoverToken(e) == IF DiscoverTokens(e) # <<>> THEN Some(DiscoverTokens(e)[1]) ELSE None

\* fetch_repo_stars: token = token if token is not None else discover_token()
SentToken(token, e) == IF token # None THEN token ELSE DiscoverToken(e)

\* _request_json and _handle_error: the exception a failed request raises.
RaisedBy(resp) ==
    IF resp.kind = "network"
    THEN [type |-> "GitHubAPIError", text |-> {}, reset_at |-> None]
    ELSE IF resp.code = 403 /\ "rate limit" \in resp.msg
    THEN [type |-> "RateLimitError", text |-> resp.msg, reset_at |-> resp.reset]
    ELSE [type |-> "GitHubAPIError", text |-> resp.msg, reset_at |-> None]

\* format_stars: the text of a count below 1000 is the count; the one-decimal
\* text of a larger count is left unevaluated.
FormatStars(n) == IF n >= 1000 THEN [thousands |-> n] ELSE [plain |-> n]

\* rate_limit_message
RateLimitMessage(reset_at) ==
    IF reset_at # None /\ reset_at[1] # 0
    THEN LET delta == IF reset_at[1] - NowSecs > 0 THEN reset_at[1] - NowSecs ELSE 0
         IN [text |-> "GitHub rate limit exceeded. Try again in ~N minutes.",
             minutes |-> delta \div 60]
    ELSE [text |-> "GitHub rate limit exceeded. Try again later or provide a PAT."]

\* -------------------------------------------------------- fetch_star_data
\* if not tokens: tokens = [None]
FetchTokens(toks) ==
    IF toks = <<>> THEN <<None>> ELSE [i \in DOMAIN toks |-> Some(toks[i])]

\* A pass that goes back to the first credential whatever the index.
TokenAt_first(toks, ti) == toks[1]

\* tokens[token_index] if token_index < len(tokens) else None   (0-based index)
TokenAt(toks, ti) == IF ti < Len(toks) THEN toks[ti + 1] ELSE None

\* A pass that writes the count into every entry.
SetStars_all(es, c, n) == [i \in DOMAIN es |-> [es[i] EXCEPT !.stars = Some(n)]]

\* entry.stars = info.stars / entry.stars = 0
SetStars(es, c, n) == [es EXCEPT ![c].stars = Some(n)]

\* if "Not Found" in str(err)
IsNotFound(err) == "Not Found" \in err.text

\* A retry that does not look whether a further credential exists.
CanRetry_unbounded(err, ti, toks) == "Bad credentials" \in err.text

\* if "Bad credentials" in str(err) and token_index + 1 < len(tokens)
CanRetry(err, ti, toks) == "Bad credentials" \in err.text /\ ti + 1 < Len(toks)

\* One turn of the while loop for entry c, given the API's answer: the entries,
\* the loop's place and the credential index after it, and the exception it lets
\* through (None if none).
FetchStep(es, c, ti, toks, resp) ==
    IF resp.kind = "ok"
    THEN [entries |-> SetStars(es, c, resp.stars), cur |-> c + 1, token_index |-> ti,
          raised |-> None]
    ELSE LET err == RaisedBy(resp)
         IN IF IsNotFound(err)
            THEN [entries |-> SetStars(es, c, 0), cur |-> c + 1, token_index |-> ti,
                  raised |-> None]
            ELSE IF CanRetry(err, ti, toks)
            THEN [entries |-> es, cur |-> c, token_index |-> ti + 1, raised |-> None]
            ELSE [entries |-> es, cur |-> c, token_index |-> ti, raised |-> Some(err)]

\* ------------------------------------------------- render_markdown, main
\* key=lambda e: e.stars or 0
StarKey(e) == IF e.stars = None THEN 0 ELSE e.stars[1]

\* A sort that is not stable: e goes before the entries of its own key.
RECURSIVE InsertByStars_unstable(_, _)
InsertByStars_unstable(sorted, e) ==
    IF sorted = <<>> THEN <<e>>
    ELSE IF StarKey(Head(sorted)) > StarKey(e)
    THEN <<Head(sorted)>> \o InsertByStars_unstable(Tail(sorted), e)
    ELSE <<e>> \o sorted

\* Where a stable descending sort puts e in a list already sorted: after every
\* entry whose key is not smaller.
RECURSIVE InsertByStars(_, _)
InsertByStars(sorted, e) ==
    IF sorted = <<>> THEN <<e>>
    ELSE IF StarKey(Head(sorted)) >= StarKey(e)
    THEN <<Head(sorted)>> \o InsertByStars(Tail(sorted), e)
    ELSE <<e>> \o sorted

RECURSIVE SortFrom(_, _, _)
SortFrom(es, i, sorted) ==
    IF i > Len(es) THEN sorted ELSE SortFrom(es, i + 1, InsertByStars(sorted, es[i]))

\* entries.sort(key=lambda e: e.stars or 0, reverse=True)
SortByStars(es) == SortFrom(es, 1, <<>>)

\* render_markdown: the table's rows after its two header lines.
RenderMarkdown(es) ==
    [i \in DOMAIN es |->
        [rank |-> i, slug |-> es[i].slug, url |-> es[i].url,
         stars |-> FormatStars(StarKey(es[i])),
         category |-> es[i].category, note |-> es[i].note]]

\* main, lines 157-160: sort, render, write.
Report(es) == RenderMarkdown(SortByStars(es))

\* A main that catches the rate-limit failure and still writes what it has.
MainEnd_partial(es, raised) ==
    [entries |-> SortByStars(es),
     exit_status |-> IF raised = None THEN Some(0) ELSE Some(1),
     printed |-> IF raised = None THEN None ELSE Some([text |-> "Traceback"]),
     output |-> Some(Report(es))]

\* main, lines 152-160, once fetch_star_data has ended with the exception
\* raised (None if it returned): how the process ends.
MainEnd(es, raised) ==
    IF raised = None
    THEN [entries |-> SortByStars(es), exit_status |-> Some(0), printed |-> None,
          output |-> Some(Report(es))]
    ELSE IF raised[1].type = "RateLimitError"
    THEN [entries |-> es, exit_status |-> Some(1),
          printed |-> Some(RateLimitMessage(raised[1].reset_at)), output |-> None]
    ELSE [entries |-> es, exit_status |-> Some(1), printed |-> Some([text |-> "Traceback"]),
          output |-> None]

Finish(end) ==
    /\ pc' = "exited"
    /\ entries' = end.entries
    /\ exit_status' = end.exit_status
    /\ printed' = end.printed
    /\ output' = end.output

\* main, lines 150-153: the entries are parsed, the tokens discovered, and
\* fetch_star_data starts; with no entry to resolve main goes on to the report.
Start ==
    /\ pc = "start"
    /\ tokens' = FetchTokens(DiscoverTokens(env))
    /\ token_index' = 0
    /\ cur' = 1
    /\ IF entries = <<>>
       THEN Finish(MainEnd(entries, None))
       ELSE pc' = "fetching" /\ UNCHANGED <<entries, exit_status, printed, output>>
    /\ UNCHANGED <<markdown, headings, seen, env, last, lookups>>

\* One lookup of fetch_star_data and what follows from the API's answer, up to
\* the next lookup or the end of the process.
Lookup(resp) ==
    /\ pc = "fetching"
    /\ cur <= Len(entries)
    /\ LET step == FetchStep(entries, cur, token_index, tokens, resp)
       IN /\ last' = [entry |-> cur, index |-> token_index,
                      auth |-> SentToken(TokenAt(tokens, token_index), env),
                      resp |-> resp]
          /\ lookups' = lookups + 1
          /\ cur' = step.cur
          /\ token_index' = step.token_index
          /\ IF step.raised # None
             THEN Finish(MainEnd(step.entries, step.raised))
             ELSE IF step.cur > Len(entries)
             THEN Finish(MainEnd(step.entries, None))
             ELSE /\ entries' = step.entries
                  /\ UNCHANGED <<pc, exit_status, printed, output>>
    /\ UNCHANGED <<markdown, headings, seen, env, tokens>>

Init ==
    /\ markdown = <<>>
    /\ headings = <<>>
    /\ seen = {}
    /\ \E n \in 0..MaxEntries : entries = ParsedEntries(n)
    /\ pc = "start"
    /\ env \in Envs
    /\ tokens = <<>>
    /\ token_index = 0
    /\ cur = 0
    /\ last = NoLookup
    /\ lookups = 0
    /\ MainIdle

Respond == \E resp \in Responses : Lookup(resp)

Next == Start \/ Respond

\* A run of main from the parsed entries on.
Spec == Init /\ [][Next]_vars

\* fetch_star_data on its own: called with any entries and any credential set
\* (an ordered sequence of distinct tokens, possibly empty), in any environment.
TokenNames == {"t1", "t2", "t3"}
CredentialSets ==
    {t \in SeqsOf(TokenNames, 0, MaxTokens) : \A i, j \in DOMAIN t : i # j => t[i] # t[j]}

InitFetch ==
    /\ markdown = <<>>
    /\ headings = <<>>
    /\ seen = {}
    /\ \E n \in 0..MaxEntries : entries = ParsedEntries(n)
    /\ pc = "fetch_start"
    /\ env \in Envs
    /\ tokens \in CredentialSets
    /\ token_index = 0
    /\ cur = 0
    /\ last = NoLookup
    /\ lookups = 0
    /\ MainIdle

\* fetch_star_data, lines 100-104: up to the first lookup, or to the return when
\* there is no entry.
FetchStart ==
    /\ pc = "fetch_start"
    /\ tokens' = FetchTokens(tokens)
    /\ token_index' = 0
    /\ cur' = 1
    /\ pc' = IF entries = <<>> THEN "fetch_returned" ELSE "fetching"
    /\ UNCHANGED <<markdown, headings, seen, entries, env, last, lookups>>
    /\ UNCHANGED mainVars

\* One lookup of fetch_star_data and what follows from the API's answer, up to
\* the next lookup, the return or the exception leaving the function.
FetchLookup(resp) ==
    /\ pc = "fetching"
    /\ cur <= Len(entries)
    /\ LET step == FetchStep(entries, cur, token_index, tokens, resp)
       IN /\ last' = [entry |-> cur, index |-> token_index,
                      auth |-> SentToken(TokenAt(tokens, token_index), env),
                      resp |-> resp]
          /\ lookups' = lookups + 1
          /\ entries' = step.entries
          /\ cur' = step.cur
          /\ token_index' = step.token_index
          /\ pc' = IF step.raised # None THEN "fetch_raised"
                   ELSE IF step.cur > Len(entries) THEN "fetch_returned"
                   ELSE "fetching"
    /\ UNCHANGED <<markdown, headings, seen, env, tokens>>
    /\ UNCHANGED mainVars

FetchRespond == \E resp \in Responses : FetchLookup(resp)

NextFetch == FetchStart \/ FetchRespond

SpecFetch == InitFetch /\ [][NextFetch]_vars

\* The same, every lookup returning: a step that can be taken is taken.
SpecFetchFair == SpecFetch /\ WF_vars(NextFetch)

\* main's last lines on their own (157-160), on entries in any order with any
\* stars, set or not.
RenderInputs ==
    UNION {{[i \in 1..n |-> [ParsedEntries(n)[i] EXCEPT !.stars = st[i]]] :
               st \in [1..n -> {None} \cup {Some(v) : v \in StarValues}]} :
           n \in 0..MaxRows}

InitRender ==
    /\ markdown = <<>>
    /\ headings = <<>>
    /\ seen = {}
    /\ entries \in RenderInputs
    /\ pc = "sorting"
    /\ FetchIdle
    /\ MainIdle

SortAndRender ==
    /\ pc = "sorting"
    /\ Finish(MainEnd(entries, None))
    /\ UNCHANGED <<markdown, headings, seen>>
    /\ UNCHANGED fetchVars

NextRender == SortAndRender

SpecRender == InitRender /\ [][NextRender]_vars

\* ----------------------------------------------------- claims: parse_repos
\* The slug parse_repos derives from a line, None when the line yields no entry.
LineSlug(line) ==
    IF BulletMatch(line) /\ Len(HostSplit(line.url)) >= 2
          /\ Len(SlugParts(TrimPath(HostSplit(line.url)[2]))) >= 2
    THEN Some(SlugOf(SlugParts(TrimPath(HostSplit(line.url)[2]))))
    ELSE None

\* The heading stack after the lines of doc.
RECURSIVE HeadingsAfter(_)
HeadingsAfter(doc) ==
    IF doc = <<>> THEN <<>>
    ELSE LET before == HeadingsAfter(SubSeq(doc, 1, Len(doc) - 1))
             line == doc[Len(doc)]
         IN IF HeaderMatch(line) THEN PushHeading(before, line.level, line.title)
            ELSE before

\* The first line of the document read whose link gives this slug, 0 if none.
FirstLineOf(slug) ==
    LET ks == {k \in DOMAIN markdown : LineSlug(markdown[k]) = Some(slug)}
    IN IF ks = {} THEN 0 ELSE CHOOSE k \in ks : \A j \in ks : k <= j

\* C1: the entries parse_repos has built hold no slug twice, every link read has
\* its entry, and each entry carries the name, the category and the note of the
\* first line of the document that links to its slug: a later line for the same
\* slug adds nothing and changes nothing.
C1_FirstOccurrenceWins ==
    /\ \A i, j \in DOMAIN entries : i # j => entries[i].slug # entries[j].slug
    /\ \A k \in DOMAIN markdown :
           LineSlug(markdown[k]) # None =>
               \E i \in DOMAIN entries : Some(entries[i].slug) = LineSlug(markdown[k])
    /\ \A i \in DOMAIN entries :
           LET k == FirstLineOf(entries[i].slug)
           IN /\ k > 0
              /\ entries[i].name = StripName(markdown[k].name)
              /\ entries[i].note = CleanNote(markdown[k].tail)
              /\ entries[i].category =
                     CurrentCategory(HeadingsAfter(SubSeq(markdown, 1, k - 1)))

\* C1's case: a returned document in which a later bullet links to the slug of an
\* earlier one under another name, another URL and another category.
C1_Witness ==
    /\ pc = "returned"
    /\ Len(entries) = 1
    /\ \E k1, k2 \in DOMAIN markdown :
           /\ k1 < k2
           /\ LineSlug(markdown[k1]) # None
           /\ LineSlug(markdown[k1]) = LineSlug(markdown[k2])
           /\ markdown[k1].name # markdown[k2].name
           /\ markdown[k1].url # markdown[k2].url
           /\ HeadingsAfter(SubSeq(markdown, 1, k1 - 1))
                  # HeadingsAfter(SubSeq(markdown, 1, k2 - 1))

\* A slug of exactly two non-empty segments around one "/".
TwoSegments(slug) ==
    LET parts == Split(slug, <<"/">>)
    IN Len(parts) = 2 /\ parts[1] # <<>> /\ parts[2] # <<>>

\* C2: every entry of parse_repos has a slug of exactly two non-empty segments
\* separated by one "/", with no leading or trailing slash.
C2_SlugTwoSegments == \A i \in DOMAIN entries : TwoSegments(entries[i].slug)

\* The characters of an owner or repository name: all but "/", "?" and "#".
NameChars == PathChars \ {"/", "?", "#"}

\* The length of the longest prefix of s made of name characters.
RECURSIVE NameLen(_)
NameLen(s) == IF s # <<>> /\ Head(s) \in NameChars THEN 1 + NameLen(Tail(s)) ELSE 0

\* path is <owner>/<repo> followed by nothing or by a suffix that starts with
\* "/", "?" or "#".
LinksRepo(path) ==
    LET o == NameLen(path)
    IN /\ o >= 1
       /\ Len(path) >= o + 2
       /\ path[o + 1] = "/"
       /\ NameLen(Drop(path, o + 1)) >= 1

\* Its <owner>/<repo>.
RepoOf(path) == Take(path, NameLen(path) + 1 + NameLen(Drop(path, NameLen(path) + 1)))

\* C3: a bullet that links to https://github.com/<owner>/<repo> followed by any
\* suffix starting with "/", "?" or "#" yields the slug <owner>/<repo>, the whole
\* suffix removed.
C3_SuffixRemoved ==
    \A k \in DOMAIN markdown :
        LET line == markdown[k]
        IN (/\ line.kind = "bullet"
            /\ Take(line.url, 5) = Url(GitHubHost, <<>>)
            /\ LinksRepo(Drop(line.url, 5)))
           => LineSlug(line) = Some(RepoOf(Drop(line.url, 5)))

\* C4: parse_repos never raises: a line that is no heading and no well-formed
\* bullet linking to a github.com repository is skipped.
C4_NeverRaises == pc # "raised"

\* The titles of the headings open after the lines of doc, outermost first,
\* but for the level-1 heading: a heading is open until a later heading of its
\* level or of a level above it.
OpenTitles(doc) ==
    LET open == {i \in DOMAIN doc :
                    /\ HeaderMatch(doc[i])
                    /\ doc[i].level > 1
                    /\ \A j \in (i + 1)..Len(doc) :
                           HeaderMatch(doc[j]) => doc[j].level > doc[i].level}
        RECURSIVE TitlesFrom(_)
        TitlesFrom(i) ==
            IF i > Len(doc) THEN <<>>
            ELSE (IF i \in open THEN <<doc[i].title>> ELSE <<>>) \o TitlesFrom(i + 1)
    IN TitlesFrom(1)

\* C5: the category of every entry is the titles, outermost first, of all the
\* headings open at the entry's bullet line, the level-1 heading alone left out.
C5_CategoryIsOpenHeadings ==
    \A i \in DOMAIN entries :
        LET k == FirstLineOf(entries[i].slug)
            titles == OpenTitles(SubSeq(markdown, 1, k - 1))
        IN k > 0 =>
             entries[i].category =
                 Join([n \in 1..Len(titles) |-> <<titles[n]>>], <<" / ">>)

\* ------------------------------------------- claims: fetch_star_data, main
\* The stars of the entry the last lookup was for (main sorts the entries only
\* when it ends, so the entry is found by its slug).
LastStars ==
    LET i == CHOOSE i \in DOMAIN entries : entries[i].slug = RepoSlugs[last.entry]
    IN entries[i].stars

LastFailed == last.resp.kind \in {"http", "network"}

\* The failure of the last lookup was taken for zero stars and the pass went on.
LastAbsorbedAsZero == LastFailed /\ LastStars = Some(0) /\ exit_status # Some(1)

\* C6: a failed lookup is recorded as zero stars, the pass going on, if and only
\* if the response was HTTP 404, whatever its message.
C6_ZeroIffHttp404 ==
    LastFailed =>
        (LastAbsorbedAsZero <=> (last.resp.kind = "http" /\ last.resp.code = 404))

\* The API's answer to a rejected credential: HTTP 401, "Bad credentials".
InvalidCredential(resp) ==
    resp.kind = "http" /\ resp.code = 401 /\ "Bad credentials" \in resp.msg

\* C7: after a lookup that fails with an invalid-credential failure, if a later
\* credential exists the pass is at the same entry, its stars unset, with the
\* next credential, and nothing is raised; if none exists the failure is fatal.
C7_RetrySameEntryNextCredential ==
    InvalidCredential(last.resp) =>
        IF last.index + 1 < Len(tokens)
        THEN /\ pc = "fetching"
             /\ cur = last.entry
             /\ token_index = last.index + 1
             /\ LastStars = None
             /\ exit_status = None
        ELSE /\ pc = "exited"
             /\ exit_status = Some(1)
             /\ LastStars = None

RateLimited(resp) == resp.kind = "http" /\ RaisedBy(resp).type = "RateLimitError"

\* C8: a rate-limit failure ends the pass at once: no further lookup, the
\* credential index where it was, the failing entry and all later ones unset.
C8_RateLimitEndsPass ==
    RateLimited(last.resp) =>
        /\ pc = "exited"
        /\ exit_status = Some(1)
        /\ token_index = last.index
        /\ \A i \in DOMAIN entries : i >= last.entry => entries[i].stars = None

\* C9: the report is written only by a process that resolved every entry; a
\* pass that ends with a failure leaves the output file unopened and the exit
\* status non-zero, and prints the rate-limit message if the failure was one.
C9_ReportAllOrNothing ==
    /\ pc # "exited" => output = None /\ exit_status = None
    /\ output # None =>
           /\ exit_status = Some(0)
           /\ \A i \in DOMAIN entries : entries[i].stars # None
    /\ (pc = "exited" /\ \E i \in DOMAIN entries : entries[i].stars = None) =>
           /\ exit_status = Some(1)
           /\ output = None
           /\ RateLimited(last.resp) =>
                  printed = Some(RateLimitMessage(last.resp.reset))
    /\ pc = "exited" => exit_status # None

\* C9's case: the second entry's lookup is rate limited after the first entry
\* was resolved, with a reset time five minutes ahead.
C9_Witness ==
    /\ pc = "exited"
    /\ RateLimited(last.resp)
    /\ last.entry = 2
    /\ entries[1].stars = Some(5)
    /\ entries[2].stars = None
    /\ printed # None
    /\ printed = Some(RateLimitMessage(Some(ResetAhead)))
    /\ printed[1].minutes = 5
    /\ output = None

\* ------------------------------------------------ claims: render_markdown
\* The place of a row's entry in the input.
PlaceIn(es, slug) == CHOOSE i \in DOMAIN es : es[i].slug = slug

\* C10: the report has one row per entry, by stars descending with unset
\* stars as 0, entries of equal stars in their input order, and the i-th row
\* carries rank i.
C10_SortedStableRanked ==
    [][(pc = "sorting" /\ pc' = "exited") =>
        /\ output' # None
        /\ LET rows == output'[1]
               place(i) == PlaceIn(entries, rows[i].slug)
           IN /\ Len(rows) = Len(entries)
              /\ {rows[i].slug : i \in DOMAIN rows} = {entries[i].slug : i \in DOMAIN entries}
              /\ \A i \in DOMAIN rows :
                     /\ rows[i].rank = i
                     /\ rows[i].stars = FormatStars(StarKey(entries[place(i)]))
              /\ \A i, j \in DOMAIN rows :
                     i < j =>
                        \/ StarKey(entries[place(i)]) > StarKey(entries[place(j)])
                        \/ /\ StarKey(entries[place(i)]) = StarKey(entries[place(j)])
                           /\ place(i) < place(j)]_vars

\* C10's case: the input stars [5, 5, 10, None] come out as 10, the first 5, the
\* second 5, None.
C10_Witness ==
    /\ pc = "exited"
    /\ output # None
    /\ Len(entries) = 4
    /\ [i \in 1..4 |-> entries[i].slug] = <<RepoSlugs[3], RepoSlugs[1], RepoSlugs[2], RepoSlugs[4]>>
    /\ [i \in 1..4 |-> entries[i].stars] = <<Some(10), Some(5), Some(5), None>>
    /\ [i \in 1..4 |-> output[1][i].stars] =
           <<FormatStars(10), FormatStars(5), FormatStars(5), FormatStars(0)>>

\* -------------------------------------------------- claims: the credentials
\* The pass has started and the credential set the caller passed was empty.
PassedNone == pc # "fetch_start" /\ tokens = <<None>>

\* What C11 says of the index: it starts at 0, and after a lookup it is where
\* the lookup found it or, only after a failure whose message says
\* "Bad credentials", one further; the lookup of a non-empty set carried the
\* credential at the index it found.
IndexDiscipline ==
    /\ (pc = "fetching" /\ lookups = 0) => token_index = 0
    /\ lookups = 1 => last.index = 0
    /\ lookups >= 1 =>
           /\ token_index \in {last.index, last.index + 1}
           /\ token_index = last.index + 1 =>
                  /\ last.resp.kind = "http"
                  /\ "Bad credentials" \in last.resp.msg
           /\ last.index < Len(tokens)
           /\ ~PassedNone => last.auth = tokens[last.index + 1]

RECURSIVE LevelsAfter(_)
LevelsAfter(doc) ==
    IF doc = <<>> THEN <<>>
    ELSE LET before == LevelsAfter(SubSeq(doc, 1, Len(doc) - 1))
             line == doc[Len(doc)]
         IN IF HeaderMatch(line) THEN PushHeading(before, line.level, line.level)
            ELSE before

\* C12: after a heading of level L is processed the stack holds, below the new
\* title, no title of an earlier heading of level L or deeper.
C12_HeadingReplacesDeeper ==
    (markdown # <<>> /\ HeaderMatch(markdown[Len(markdown)]) /\ pc # "raised") =>
        LET levels == LevelsAfter(markdown)
        IN /\ Len(levels) = Len(headings)
           /\ headings[Len(headings)] = markdown[Len(markdown)].title
           /\ \A p \in 1..(Len(levels) - 1) : levels[p] < markdown[Len(markdown)].level

\* ------------------------------------------------- claims: the pass itself
FetchEnded == pc \in {"fetch_returned", "fetch_raised"}

\* C13: during a pass the entries with stars set are a prefix of the input, the
\* entries before the loop's place; a pass that completes has set them all; and
\* a step writes the stars of at most one entry, never of one already set, so
\* that an abort leaves the resolved prefix as it was.
C13_ResolvedInOrderOnce ==
    /\ [](/\ pc = "fetch_start" => \A i \in DOMAIN entries : entries[i].stars = None
          /\ pc # "fetch_start" =>
                 \A i \in DOMAIN entries : (entries[i].stars # None) <=> (i < cur)
          /\ pc = "fetch_returned" => \A i \in DOMAIN entries : entries[i].stars # None)
    /\ [][/\ DOMAIN entries' = DOMAIN entries
          /\ \A i \in DOMAIN entries :
                 entries[i].stars # None => entries'[i] = entries[i]
          /\ \A i, j \in DOMAIN entries :
                 (entries'[i] # entries[i] /\ entries'[j] # entries[j]) => i = j
          /\ pc' = "fetch_raised" => entries' = entries]_vars

\* C13's case: a pass that aborts at its second entry after resolving the first.
C13_Witness ==
    /\ pc = "fetch_raised"
    /\ Len(entries) >= 2
    /\ last.entry = 2
    /\ entries[1].stars = Some(5)
    /\ entries[2].stars = None

MaxOf(a, b) == IF a >= b THEN a ELSE b

\* C14: every lookup returning, a pass ends, by returning or by raising: the
\* credential index stays within 0..max(len(tokens),1)-1 and never decreases,
\* every lookup finishes the current entry, advances the index or aborts the
\* pass, and a pass issues at most len(entries) + max(len(tokens),1) - 1 lookups.
C14_PassTerminates ==
    /\ [](/\ token_index \in 0..(MaxOf(Len(tokens), 1) - 1)
          /\ lookups <= Len(entries) + MaxOf(Len(tokens), 1) - 1)
    /\ [][/\ token_index' >= token_index
          /\ lookups' = lookups + 1 =>
                 \/ cur' = cur + 1 /\ entries'[cur].stars # None
                 \/ token_index' = token_index + 1
                 \/ pc' = "fetch_raised"]_vars
    /\ <>FetchEnded

\* C14's case: a pass that returns after as many lookups as the bound allows,
\* having gone through more than one credential.
C14_Witness ==
    /\ pc = "fetch_returned"
    /\ Len(tokens) >= 2
    /\ Len(entries) >= 2
    /\ token_index = Len(tokens) - 1
    /\ lookups = Len(entries) + Len(tokens) - 1

====
